---------------------------- MODULE Spec2Model ----------------------------
(***************************************************************************)
(* A model of krystal's network analysis engine, PowerMapper               *)
(* (core/src/krystal/power_mapper.py).                                     *)
(*                                                                         *)
(* Representation.                                                         *)
(*  - A Python str is a sequence of one-character strings, so that the     *)
(*    id clean-up and str.lower() are computed character by character.     *)
(*  - A Python dict used as a record (an entity, a relationship) is a      *)
(*    function whose DOMAIN is the set of keys present.                    *)
(*  - A Python dict used as a table keeps its insertion order: it is       *)
(*    [keys |-> sequence of keys, val |-> function on those keys].         *)
(*  - A float is an exact rational <<numerator, denominator>> in lowest    *)
(*    terms; a relationship strength is an integer number of hundredths.   *)
(*    The eigenvector power iteration is carried out in fixed point with   *)
(*    EigScale units per 1.0.                                              *)
(***************************************************************************)
EXTENDS Integers, Sequences, FiniteSets, TLC

VARIABLES
    graph,          \* self.graph: the networkx Graph held by the engine
    entities,       \* self.entities: id -> entity record
    relationships,  \* self.relationships: the list object the field refers to
    relAliased,     \* TRUE when self.relationships IS the caller's list inR
    analysis_cache, \* self.analysis_cache (never written by any method)
    inE,            \* the caller's entity list (the records are the caller's objects)
    inR,            \* the caller's relationship list
    result,         \* what the last analyze_network call returned
    budget,         \* calls the sequential caller will still make
    threads         \* the concurrent callers: position, inputs, locals, result

vars == <<graph, entities, relationships, relAliased, analysis_cache,
          inE, inR, result, budget, threads>>

-----------------------------------------------------------------------------
(* Bounds of the model.                                                    *)

MaxEntities == 2
MaxRels == 2
MaxTypedRels == 2
MaxCalls == 2
MaxSmallEntities == 2
MaxSmallRels == 1
MaxRawEntities == 3
MaxRawRels == 2
MaxChainEntities == 6
MaxChainRels == 3
MaxShortCap == 2

-----------------------------------------------------------------------------
(* Strings.                                                                *)

UpperChars == <<"A","B","C","D","E","F","G","H","I","J","K","L","M",
                "N","O","P","Q","R","S","T","U","V","W","X","Y","Z">>
LowerChars == <<"a","b","c","d","e","f","g","h","i","j","k","l","m",
                "n","o","p","q","r","s","t","u","v","w","x","y","z">>
DigitChars == <<"0","1","2","3","4","5","6","7","8","9">>

Range(s) == {s[i] : i \in DOMAIN s}

AlnumChars == Range(UpperChars) \cup Range(LowerChars) \cup Range(DigitChars)

\* c.isalnum()
IsAlnum(c) == c \in AlnumChars

\* str.lower(), character by character
LowerOf == [c \in Range(UpperChars) |->
              LowerChars[CHOOSE i \in DOMAIN UpperChars : UpperChars[i] = c]]

LowerChar(c) == IF c \in DOMAIN LowerOf THEN LowerOf[c] ELSE c

\* str.lower()
StrLower(s) == [i \in DOMAIN s |-> LowerChar(s[i])]

\* ''.join(c for c in s if keep(c))
RECURSIVE FilterIdChars(_)
FilterIdChars(s) ==
    IF s = <<>> THEN <<>>
    ELSE LET c == Head(s)
         IN  IF IsAlnum(c) \/ c \in {"_", "-"}
             THEN <<c>> \o FilterIdChars(Tail(s))
             ELSE FilterIdChars(Tail(s))

\* str(i) for a natural number i
RECURSIVE IntToStr(_)
IntToStr(i) ==
    IF i < 10 THEN <<DigitChars[i + 1]>>
    ELSE IntToStr(i \div 10) \o <<DigitChars[(i % 10) + 1]>>

\* ''.join(c for c in str(entity_id) if c.isalnum() or c in ('_', '-')).lower()
CleanId(s) == StrLower(FilterIdChars(s))

-----------------------------------------------------------------------------
(* Records and insertion-ordered tables.                                   *)

Has(rec, key) == key \in DOMAIN rec

\* rec[key] = v
SetKey(rec, key, v) ==
    [k \in DOMAIN rec \cup {key} |-> IF k = key THEN v ELSE rec[k]]

\* rec.update(other)
Update(rec, other) ==
    [k \in DOMAIN rec \cup DOMAIN other |-> IF k \in DOMAIN other THEN other[k] ELSE rec[k]]

EmptyDict == [keys |-> <<>>, val |-> <<>>]

InDict(d, k) == k \in Range(d.keys)

\* a table that keeps the first value written for a key
DictSetKeepFirst(d, k, v) ==
    IF InDict(d, k) THEN d
    ELSE [keys |-> Append(d.keys, k),
          val  |-> [x \in Range(d.keys) \cup {k} |-> IF x = k THEN v ELSE d.val[x]]]

\* d[k] = v : a new key goes last, an old key keeps its place
DictSet(d, k, v) ==
    [keys |-> IF InDict(d, k) THEN d.keys ELSE Append(d.keys, k),
     val  |-> [x \in Range(d.keys) \cup {k} |-> IF x = k THEN v ELSE d.val[x]]]

-----------------------------------------------------------------------------
(* The graph (networkx.Graph): the nodes in insertion order with their     *)
(* attribute dicts, the adjacency of every node, and the attribute dict    *)
(* of every undirected edge {u, v} (a self-loop is {u}).                   *)

EmptyGraph == [nodes |-> <<>>, attr |-> <<>>, adj |-> <<>>, eattr |-> <<>>]

\* a clear() that leaves the graph as it is
GraphClearKeeps(G) == G

\* Graph.clear()
GraphClear(G) == EmptyGraph

NodeSet(G) == Range(G.nodes)

Edges(G) == DOMAIN G.eattr

\* Graph.add_node(n, **attrs)
GraphAddNode(G, n, attrs) ==
    IF n \in NodeSet(G)
    THEN [G EXCEPT !.attr[n] = Update(G.attr[n], attrs)]
    ELSE [G EXCEPT !.nodes = Append(G.nodes, n),
                   !.attr  = [x \in NodeSet(G) \cup {n} |-> IF x = n THEN attrs ELSE G.attr[x]],
                   !.adj   = [x \in NodeSet(G) \cup {n} |-> IF x = n THEN {} ELSE G.adj[x]]]

\* Graph.add_edge(u, v, **attrs): missing endpoints become nodes, the
\* attributes of an existing edge are updated, not replaced
GraphAddEdge(G, u, v, attrs) ==
    LET G1 == IF u \in NodeSet(G) THEN G ELSE GraphAddNode(G, u, <<>>)
        G2 == IF v \in NodeSet(G1) THEN G1 ELSE GraphAddNode(G1, v, <<>>)
        e  == {u, v}
    IN  [G2 EXCEPT
           !.adj   = [x \in NodeSet(G2) |->
                        IF x = u /\ x = v THEN G2.adj[x] \cup {u}
                        ELSE IF x = u THEN G2.adj[x] \cup {v}
                        ELSE IF x = v THEN G2.adj[x] \cup {u}
                        ELSE G2.adj[x]],
           !.eattr = [x \in Edges(G2) \cup {e} |->
                        IF x # e THEN G2.eattr[x]
                        ELSE IF e \in Edges(G2) THEN Update(G2.eattr[e], attrs) ELSE attrs]]

-----------------------------------------------------------------------------
(* PowerMapper.__init__ configuration.                                     *)

\* self.min_relationship_strength = 0.1, in hundredths
min_relationship_strength == 10

\* rel.get('strength', 0.5), in hundredths
DefaultStrength == 50

\* a strength field that holds None (a JSON null): no number at all
NoneStrength == 0 - 1

\* a field that holds None where a str is expected
PyNone == <<"None">>

-----------------------------------------------------------------------------
(* PowerMapper._build_network                                              *)

EntityPrefix == <<"e","n","t","i","t","y","_">>

\* lines 74-81: the caller's records after the id pass (the pass writes
\* entity['id'] into the caller's own record)
ProcessEntities(E) ==
    [i \in DOMAIN E |->
       IF Has(E[i], "id") THEN E[i]
       ELSE LET raw == IF Has(E[i], "name") THEN E[i].name
                       ELSE EntityPrefix \o IntToStr(i - 1)
            IN  SetKey(E[i], "id", CleanId(raw))]

\* line 83: {entity['id']: entity for entity in processed_entities}
RECURSIVE EntityTable(_, _)
EntityTable(P, d) ==
    IF P = <<>> THEN d
    ELSE EntityTable(Tail(P), DictSet(d, Head(P).id, Head(P)))

\* lines 87-88
RECURSIVE AddEntityNodes(_, _, _)
AddEntityNodes(G, ents, ks) ==
    IF ks = <<>> THEN G
    ELSE AddEntityNodes(GraphAddNode(G, Head(ks), ents.val[Head(ks)]), ents, Tail(ks))

\* the target is not looked up
RelSurvivesSourceOnly(ents, rel) ==
    /\ Has(rel, "source") /\ InDict(ents, rel.source)
    /\ Has(rel, "target")
    /\ (IF Has(rel, "strength") THEN rel.strength ELSE DefaultStrength)
          >= min_relationship_strength

\* the source is not looked up
RelSurvivesTargetOnly(ents, rel) ==
    /\ Has(rel, "source")
    /\ Has(rel, "target") /\ InDict(ents, rel.target)
    /\ (IF Has(rel, "strength") THEN rel.strength ELSE DefaultStrength)
          >= min_relationship_strength

\* the threshold itself is excluded
RelSurvivesStrict(ents, rel) ==
    /\ Has(rel, "source") /\ InDict(ents, rel.source)
    /\ Has(rel, "target") /\ InDict(ents, rel.target)
    /\ (IF Has(rel, "strength") THEN rel.strength ELSE DefaultStrength)
          > min_relationship_strength

\* lines 92-98: does the relationship pass the two tests
RelSurvives(ents, rel) ==
    /\ Has(rel, "source") /\ InDict(ents, rel.source)
    /\ Has(rel, "target") /\ InDict(ents, rel.target)
    /\ (IF Has(rel, "strength") THEN rel.strength ELSE DefaultStrength)
          >= min_relationship_strength

\* line 98: weight >= self.min_relationship_strength raises TypeError when
\* the weight is None; the comparison is made only for known endpoints
RelRaises(ents, rel) ==
    /\ Has(rel, "source") /\ InDict(ents, rel.source)
    /\ Has(rel, "target") /\ InDict(ents, rel.target)
    /\ Has(rel, "strength") /\ rel.strength = NoneStrength

\* lines 91-99; the loop ends at the record that raises
RECURSIVE AddRelationshipEdges(_, _, _)
AddRelationshipEdges(G, ents, R) ==
    IF R = <<>> THEN G
    ELSE LET rel == Head(R)
         IN  IF RelRaises(ents, rel) THEN G
             ELSE AddRelationshipEdges(IF RelSurvives(ents, rel)
                                       THEN GraphAddEdge(G, rel.source, rel.target, rel)
                                       ELSE G,
                                       ents, Tail(R))

\* _build_network does not return: nothing catches the TypeError
BuildRaises(ents, R) == \E i \in DOMAIN R : RelRaises(ents, R[i])

\* _build_network(entities, relationships) on an engine whose graph is G0:
\* the caller's entity list afterwards, self.entities and self.graph
BuildNetwork(G0, E, R) ==
    LET P    == ProcessEntities(E)
        ents == EntityTable(P, EmptyDict)
        G1   == AddEntityNodes(GraphClear(G0), ents, ents.keys)
    IN  [E |-> P, entities |-> ents, graph |-> AddRelationshipEdges(G1, ents, R),
         raised |-> BuildRaises(ents, R)]

-----------------------------------------------------------------------------
(* Exact rationals <<n, d>> with d > 0, in lowest terms.                   *)

RECURSIVE GCD(_, _)
GCD(a, b) == IF b = 0 THEN a ELSE GCD(b, a % b)

Abs(a) == IF a < 0 THEN -a ELSE a

Rat(n, d) ==
    LET g == GCD(Abs(n), d)
    IN  <<n \div g, d \div g>>

RZero == <<0, 1>>
ROne == <<1, 1>>

RAdd(a, b) == Rat(a[1] * b[2] + b[1] * a[2], a[2] * b[2])
RMul(a, b) == Rat(a[1] * b[1], a[2] * b[2])
RLe(a, b) == a[1] * b[2] <= b[1] * a[2]
RLt(a, b) == a[1] * b[2] < b[1] * a[2]
RMin(a, b) == IF RLe(a, b) THEN a ELSE b

RECURSIVE RSum(_, _)
\* the sum of f[x] over the finite set S
RSum(f, S) ==
    IF S = {} THEN RZero
    ELSE LET x == CHOOSE y \in S : TRUE
         IN  RAdd(f[x], RSum(f, S \ {x}))

RECURSIVE ISum(_, _)
ISum(f, S) ==
    IF S = {} THEN 0
    ELSE LET x == CHOOSE y \in S : TRUE
         IN  f[x] + ISum(f, S \ {x})

-----------------------------------------------------------------------------
(* networkx primitives used by the engine.                                 *)

NumberOfNodes(G) == Len(G.nodes)
NumberOfEdges(G) == Cardinality(Edges(G))

\* G[v]: the neighbours of v (v itself when it carries a self-loop)
Adj(G, v) == G.adj[v]

\* G.degree(v): a self-loop counts twice
Degree(G, v) ==
    Cardinality(Adj(G, v) \ {v}) + (IF v \in Adj(G, v) THEN 2 ELSE 0)

\* a function as a table: every value is computed once
Table(f) == f @@ <<>>

\* breadth-first search from s inside V: for every node reached, its
\* distance from s and the number of shortest paths from s to it
RECURSIVE BfsLoop(_, _, _, _, _, _)
BfsLoop(G, V, frontier, dist, sigma, k) ==
    LET next == {t \in V \ DOMAIN dist : Adj(G, t) \cap frontier # {}}
    IN  IF next = {} THEN [dist |-> dist, sigma |-> sigma]
        ELSE BfsLoop(G, V, next,
                     Table([t \in DOMAIN dist \cup next |->
                              IF t \in next THEN k + 1 ELSE dist[t]]),
                     Table([t \in DOMAIN sigma \cup next |->
                              IF t \in next
                              THEN ISum(sigma, Adj(G, t) \cap frontier)
                              ELSE sigma[t]]),
                     k + 1)

Bfs(G, V, s) == BfsLoop(G, V, {s}, Table([t \in {s} |-> 0]), Table([t \in {s} |-> 1]), 0)

\* all shortest paths inside V, one search per source
ShortestPaths(G, V) == Table([s \in V |-> Bfs(G, V, s)])

NoPath == -1

\* shortest-path length from s to t, NoPath when t is unreachable
Dist(sp, s, t) == IF t \in DOMAIN sp[s].dist THEN sp[s].dist[t] ELSE NoPath

\* the number of shortest paths from s to t (0 when unreachable)
Sigma(sp, s, t) == IF t \in DOMAIN sp[s].sigma THEN sp[s].sigma[t] ELSE 0

\* the nodes reachable from v
Component(G, v) == DOMAIN Bfs(G, NodeSet(G), v).dist

\* nx.connected_components(G), in node order
RECURSIVE ComponentsFrom(_, _, _)
ComponentsFrom(G, ns, seen) ==
    IF ns = <<>> THEN <<>>
    ELSE IF Head(ns) \in seen THEN ComponentsFrom(G, Tail(ns), seen)
    ELSE LET c == Component(G, Head(ns))
         IN  <<c>> \o ComponentsFrom(G, Tail(ns), seen \cup c)

ConnectedComponents(G) == ComponentsFrom(G, G.nodes, {})

NumberConnectedComponents(G) == Len(ConnectedComponents(G))

\* nx.is_connected(G), for a graph with at least one node
IsConnected(G) == Component(G, G.nodes[1]) = NodeSet(G)

\* nx.density(G)
Density(G) ==
    LET n == NumberOfNodes(G)
        m == NumberOfEdges(G)
    IN  IF m = 0 \/ n <= 1 THEN RZero ELSE Rat(2 * m, n * (n - 1))

\* nx.degree_centrality(G)
DegreeCentrality(G) ==
    LET n == NumberOfNodes(G)
    IN  Table([v \in NodeSet(G) |-> IF n <= 1 THEN ROne ELSE Rat(Degree(G, v), n - 1)])

\* the share of the shortest s-t paths that pass through v
PairDependency(sp, s, t, v) ==
    LET dst == Dist(sp, s, t)
        dsv == Dist(sp, s, v)
        dvt == Dist(sp, v, t)
    IN  IF dst = NoPath \/ dsv = NoPath \/ dvt = NoPath \/ dsv + dvt # dst
        THEN RZero
        ELSE Rat(Sigma(sp, s, v) * Sigma(sp, v, t), Sigma(sp, s, t))

\* nx.betweenness_centrality(G.subgraph(V)): normalized, undirected,
\* endpoints excluded
BetweennessOn(G, V) ==
    LET n  == Cardinality(V)
        sp == ShortestPaths(G, V)
        raw(v) ==
            LET pairs == {p \in (V \ {v}) \X (V \ {v}) : p[1] # p[2]}
            IN  RSum([p \in pairs |-> PairDependency(sp, p[1], p[2], v)], pairs)
    IN  Table([v \in V |->
                 IF n <= 2 THEN raw(v)
                 ELSE RMul(raw(v), Rat(1, (n - 1) * (n - 2)))])

\* nx.betweenness_centrality(G)
BetweennessCentrality(G) == BetweennessOn(G, NodeSet(G))

\* nx.closeness_centrality(G) (wf_improved=True)
\* closeness without the reachable-fraction scaling (wf_improved=False)
ClosenessUnscaled(G) ==
    LET V  == NodeSet(G)
        sp == ShortestPaths(G, V)
    IN  Table([u \in V |->
                 LET reach == DOMAIN sp[u].dist
                     totsp == ISum(sp[u].dist, reach)
                     r     == Cardinality(reach)
                 IN  IF totsp > 0 THEN Rat(r - 1, totsp) ELSE RZero])

ClosenessCentrality(G) ==
    LET n  == NumberOfNodes(G)
        V  == NodeSet(G)
        sp == ShortestPaths(G, V)
    IN  Table([u \in V |->
                 LET reach == DOMAIN sp[u].dist
                     totsp == ISum(sp[u].dist, reach)
                     r     == Cardinality(reach)
                 IN  IF totsp > 0 /\ n > 1
                     THEN Rat((r - 1) * (r - 1), totsp * (n - 1))
                     ELSE RZero])

-----------------------------------------------------------------------------
(* nx.eigenvector_centrality(G, max_iter=1000, tol=1e-3): power iteration  *)
(* on A + I from the uniform vector, in fixed point.                       *)

\* fixed-point units per 1.0; tol = 1e-3 is EigScale \div 1000 units
EigScale == 5 * 1000
EigTol == EigScale \div 1000

\* max_iter=1000
EigMaxIter == 1000

RECURSIVE ISqrtIter(_, _)
ISqrtIter(n, x) ==
    LET y == (x + n \div x) \div 2
    IN  IF y >= x THEN x ELSE ISqrtIter(n, y)

\* floor of the square root
ISqrt(n) == IF n = 0 THEN 0 ELSE ISqrtIter(n, n)

\* one pass of the loop body: x = (A + I) xlast, then x / hypot(x)
EigStep(G, xlast) ==
    LET V == NodeSet(G)
        x == Table([v \in V |-> xlast[v] + ISum(xlast, Adj(G, v))])
        h == ISqrt(ISum([v \in V |-> x[v] * x[v]], V))
        norm == IF h = 0 THEN 1 ELSE h
    IN  Table([v \in V |-> (x[v] * EigScale) \div norm])

EigConverged(G, x, xlast) ==
    LET V == NodeSet(G)
    IN  ISum([v \in V |-> Abs(x[v] - xlast[v])], V) < NumberOfNodes(G) * EigTol

\* the loop: [converged |-> TRUE, x |-> the vector], or converged = FALSE
\* when max_iter passes are used up (PowerIterationFailedConvergence)
RECURSIVE EigIterate(_, _, _)
EigIterate(G, xlast, left) ==
    IF left = 0 THEN [converged |-> FALSE, x |-> xlast]
    ELSE LET x == EigStep(G, xlast)
         IN  IF EigConverged(G, x, xlast) THEN [converged |-> TRUE, x |-> x]
             ELSE EigIterate(G, x, left - 1)

\* the power iteration with at most max_iter passes
EigenvectorWithin(G, max_iter) ==
    LET V  == NodeSet(G)
        x0 == Table([v \in V |-> EigScale \div NumberOfNodes(G)])
        it == EigIterate(G, x0, max_iter)
    IN  [converged |-> it.converged,
         x         |-> Table([v \in V |-> Rat(it.x[v], EigScale)])]

EigenvectorCentrality(G) == EigenvectorWithin(G, EigMaxIter)

-----------------------------------------------------------------------------
(* PowerMapper._calculate_centrality                                       *)

\* a variant that passes over the components of a single node
RECURSIVE BetweennessSkipsSingle(_, _, _)
BetweennessSkipsSingle(G, comps, acc) ==
    IF comps = <<>> THEN acc
    ELSE LET c   == Head(comps)
             sub == IF Cardinality(c) > 1 THEN BetweennessOn(G, c) ELSE <<>>
         IN  BetweennessSkipsSingle(G, Tail(comps), Update(acc, sub))

\* betweenness on the whole graph, whatever its components
BetweennessWholeGraph(G, comps, acc) == BetweennessCentrality(G)

\* lines 117-128: betweenness component by component
RECURSIVE BetweennessPerComponent(_, _, _)
BetweennessPerComponent(G, comps, acc) ==
    IF comps = <<>> THEN acc
    ELSE LET c   == Head(comps)
             sub == IF Cardinality(c) > 1 THEN BetweennessOn(G, c)
                    ELSE [v \in c |-> RZero]
         IN  BetweennessPerComponent(G, Tail(comps), Update(acc, sub))

\* the vector of the iteration whether or not it converged
EigenvectorNoFallback(dc, ev) == ev.x

\* lines 134-141: the vector the iteration returns, or the degree
\* centrality map when it raises
EigenvectorOrFallback(dc, ev) == IF ev.converged THEN ev.x ELSE dc

\* lines 106-149: the four measures of a graph with a node
CentralityMeasures(G) ==
    LET dc  == DegreeCentrality(G)
        bc  == IF IsConnected(G) /\ NumberOfNodes(G) > 2
               THEN BetweennessCentrality(G)
               ELSE BetweennessPerComponent(G, ConnectedComponents(G), <<>>)
        eig == IF IsConnected(G) /\ NumberOfNodes(G) > 1
               THEN EigenvectorOrFallback(dc, EigenvectorCentrality(G))
               ELSE dc
    IN  [degree_centrality      |-> dc,
         betweenness_centrality |-> bc,
         eigenvector_centrality |-> eig,
         closeness_centrality   |-> ClosenessCentrality(G)]

\* the early return looks at the nodes only
CalculateCentralityNodesOnly(G) ==
    IF NumberOfNodes(G) = 0 THEN <<>> ELSE CentralityMeasures(G)

\* lines 101-152
CalculateCentrality(G) ==
    IF NumberOfNodes(G) = 0 \/ NumberOfEdges(G) = 0 THEN <<>> ELSE CentralityMeasures(G)

-----------------------------------------------------------------------------
(* PowerMapper._calculate_entity_influence and _calculate_influence_scores *)

Government == <<"g","o","v","e","r","n","m","e","n","t">>
Corporation == <<"c","o","r","p","o","r","a","t","i","o","n">>
Person == <<"p","e","r","s","o","n">>
Organization == <<"o","r","g","a","n","i","z","a","t","i","o","n">>

\* lines 271-277
TypeMultiplier(entity) ==
    LET entity_type == StrLower(IF Has(entity, "type") THEN entity.type ELSE <<>>)
    IN  CASE entity_type = Corporation  -> Rat(12, 10)
          [] entity_type = Government   -> Rat(13, 10)
          [] entity_type = Person       -> Rat(11, 10)
          [] entity_type = Organization -> Rat(10, 10)
          [] OTHER                      -> Rat(10, 10)

\* the two weights exchanged
BaseInfluenceSwapped(centrality, betweenness) ==
    RMul(RAdd(RMul(centrality, Rat(6, 10)), RMul(betweenness, Rat(4, 10))), Rat(100, 1))

\* line 280: (centrality * 0.4 + betweenness * 0.6) * 100
BaseInfluence(centrality, betweenness) ==
    RMul(RAdd(RMul(centrality, Rat(4, 10)), RMul(betweenness, Rat(6, 10))), Rat(100, 1))

\* no cap
CapInfluenceNone(x) == x

\* line 282: min(base_influence * type_multiplier, 100.0)
CapInfluence(x) == RMin(x, Rat(100, 1))

\* line 271: None has no lower(); the AttributeError is caught on line 284
InfluenceRaises(entity) == Has(entity, "type") /\ entity.type = PyNone

\* lines 267-286, given the two centrality maps of the graph: the score,
\* or the 0.0 of the except branch
InfluenceFrom(dc, bc, ents, entity_id) ==
    IF InfluenceRaises(ents.val[entity_id]) THEN RZero
    ELSE CapInfluence(RMul(BaseInfluence(dc[entity_id], bc[entity_id]),
                           TypeMultiplier(ents.val[entity_id])))

CalculateEntityInfluence(G, ents, entity_id) ==
    IF entity_id \notin NodeSet(G) THEN RZero
    ELSE InfluenceFrom(DegreeCentrality(G), BetweennessCentrality(G), ents, entity_id)

\* public calculate_influence(entity_id)
CalculateInfluence(G, ents, entity_id) == CalculateEntityInfluence(G, ents, entity_id)

\* insertion for an ascending sort
RECURSIVE InsertAscending(_, _)
InsertAscending(sorted, x) ==
    IF sorted = <<>> THEN <<x>>
    ELSE IF RLt(x.influence_score, Head(sorted).influence_score)
         THEN <<x>> \o sorted
         ELSE <<Head(sorted)>> \o InsertAscending(Tail(sorted), x)

\* insertion for a descending sort that puts a record before the records
\* of the same score
RECURSIVE InsertBeforeEqual(_, _)
InsertBeforeEqual(sorted, x) ==
    IF sorted = <<>> THEN <<x>>
    ELSE IF ~RLt(x.influence_score, Head(sorted).influence_score)
         THEN <<x>> \o sorted
         ELSE <<Head(sorted)>> \o InsertBeforeEqual(Tail(sorted), x)

\* sorted(..., key=influence_score, reverse=True) is stable: a record goes
\* after every record already placed whose score is not smaller
RECURSIVE InsertByScore(_, _)
InsertByScore(sorted, x) ==
    IF sorted = <<>> THEN <<x>>
    ELSE IF RLt(Head(sorted).influence_score, x.influence_score)
         THEN <<x>> \o sorted
         ELSE <<Head(sorted)>> \o InsertByScore(Tail(sorted), x)

RECURSIVE SortedByScore(_, _)
SortedByScore(todo, done) ==
    IF todo = <<>> THEN done
    ELSE SortedByScore(Tail(todo), InsertByScore(done, Head(todo)))

\* what _calculate_entity_influence returns for every node that is an
\* entity: each call recomputes the same two maps of the same graph
InfluenceMap(G, ents) ==
    LET dc == DegreeCentrality(G)
        bc == BetweennessCentrality(G)
    IN  Table([v \in {x \in NodeSet(G) : InDict(ents, x)} |-> InfluenceFrom(dc, bc, ents, v)])

\* lines 251-255, scores being the values of _calculate_entity_influence
ScoredEntities(G, ents, scores) ==
    [i \in DOMAIN G.nodes |->
       SetKey(ents.val[G.nodes[i]], "influence_score", scores[G.nodes[i]])]

CalculateInfluenceScores(G, ents, scores) ==
    SortedByScore(ScoredEntities(G, ents, scores), <<>>)

\* line 253: self.entities[entity_id] raises KeyError for a node that is no
\* key of the entity table, and nothing catches it
InfluenceScoresRaise(G, ents) == \E v \in NodeSet(G) : ~InDict(ents, v)

RaisedKeyError == [raised |-> "KeyError"]

-----------------------------------------------------------------------------
(* PowerMapper._detect_communities                                         *)

\* every partition of the set S
RECURSIVE Partitions(_)
Partitions(S) ==
    IF S = {} THEN {{}}
    ELSE LET x == CHOOSE y \in S : TRUE
         IN  UNION {{P \cup {{x}}} \cup {(P \ {B}) \cup {B \cup {x}} : B \in P} :
                      P \in Partitions(S \ {x})}

\* every partition whose blocks each lie inside one of the components
RECURSIVE PartitionsWithin(_)
PartitionsWithin(comps) ==
    IF comps = <<>> THEN {{}}
    ELSE {P \cup Q : P \in Partitions(Head(comps)), Q \in PartitionsWithin(Tail(comps))}

\* nx.community.louvain_communities(G, seed=42, resolution=1.0): the seed
\* fixes the order in which the nodes are visited, which decides the
\* partition returned; a node only ever joins the community of a neighbour,
\* so every community lies inside one connected component
LouvainOutcomes(G) == PartitionsWithin(ConnectedComponents(G))

\* the communities as the loop on line 178 meets them: here the communities
\* in the order of their first node and the members in node order
RECURSIVE BlocksInOrder(_, _, _)
BlocksInOrder(G, P, nodes) ==
    IF nodes = <<>> THEN <<>>
    ELSE LET v == Head(nodes)
             B == CHOOSE C \in P : v \in C
             rest == BlocksInOrder(G, P, Tail(nodes))
         IN  IF \A i \in DOMAIN G.nodes : G.nodes[i] \in B => Len(G.nodes) - Len(nodes) < i
             THEN <<SelectSeq(G.nodes, LAMBDA u : u \in B)>> \o rest
             ELSE rest

\* a variant that leaves out the nodes without an edge
TrivialCommunitiesConnected(G) ==
    LET connected == SelectSeq(G.nodes, LAMBDA v : Degree(G, v) > 0)
    IN  [i \in DOMAIN connected |-> <<connected[i]>>]

\* lines 161-164: [[node] for node in self.graph.nodes()]
TrivialCommunities(G) == [i \in DOMAIN G.nodes |-> <<G.nodes[i]>>]

\* nx.community.modularity(G, communities): the sum over the communities
\* of L_c / m - (deg_c / 2m)^2
Modularity(G, communities) ==
    LET m == NumberOfEdges(G)
        contribution == [i \in DOMAIN communities |->
            LET B   == Range(communities[i])
                L_c == Cardinality({e \in Edges(G) : e \subseteq B})
                deg == ISum([v \in B |-> Degree(G, v)], B)
            IN  RAdd(Rat(L_c, m), Rat(0 - deg * deg, 4 * m * m))]
    IN  RSum(contribution, DOMAIN communities)

\* lines 178-199: one community with the details of its entities, scores
\* being the values of _calculate_entity_influence
DetailedCommunity(ents, scores, community, i) ==
    LET members == SelectSeq(community, LAMBDA v : InDict(ents, v))
    IN  [id              |-> i,
         size            |-> Len(members),
         entities        |-> [k \in DOMAIN members |-> ents.val[members[k]]],
         influence_score |-> RMul(RSum([k \in DOMAIN members |-> scores[members[k]]],
                                       DOMAIN members),
                                  Rat(1, Len(members)))]

\* lines 177-199: only the communities with an entity are kept
DetailedCommunities(ents, scores, communities) ==
    LET kept == SelectSeq([i \in DOMAIN communities |-> [i |-> i, c |-> communities[i]]],
                          LAMBDA x : \E v \in Range(x.c) : InDict(ents, v))
    IN  [k \in DOMAIN kept |-> DetailedCommunity(ents, scores, kept[k].c, kept[k].i)]

NoCommunities == [communities |-> <<>>, modularity |-> RZero, community_count |-> 0]

\* _detect_communities when Louvain, if it is called, returns louvain
DetectCommunities(G, ents, scores, louvain) ==
    IF NumberOfNodes(G) = 0 \/ NumberOfEdges(G) = 0 THEN NoCommunities
    ELSE LET trivial     == NumberOfEdges(G) < 2
             communities == IF trivial THEN TrivialCommunities(G)
                            ELSE BlocksInOrder(G, louvain, G.nodes)
             detailed    == DetailedCommunities(ents, scores, communities)
         IN  [communities     |-> detailed,
              modularity      |-> IF trivial THEN RZero ELSE Modularity(G, communities),
              community_count |-> Len(detailed)]

-----------------------------------------------------------------------------
(* PowerMapper._analyze_structure                                          *)

\* a float that is not a number (0.0 / 0.0 in numpy)
NaN == <<0, 0>>

\* the str "Disconnected", which stands where the diameter would be
Disconnected == 0 - 1

\* nx.diameter(G) of a connected graph: the largest distance
Diameter(G) ==
    LET V  == NodeSet(G)
        sp == ShortestPaths(G, V)
    IN  CHOOSE d \in 0..NumberOfNodes(G) :
            /\ \A s, t \in V : Dist(sp, s, t) <= d
            /\ \E s, t \in V : Dist(sp, s, t) = d

\* nx.clustering(G, v): the fraction of the pairs of neighbours of v (v
\* itself left out) that are joined, 0 when there is no triangle
Clustering(G, v) ==
    LET vs == Adj(G, v) \ {v}
        d  == Cardinality(vs)
        t  == Cardinality({e \in Edges(G) : Cardinality(e) = 2 /\ e \subseteq vs})
    IN  IF t = 0 THEN RZero ELSE Rat(2 * t, d * (d - 1))

\* nx.average_clustering(G)
AverageClustering(G) ==
    RMul(RSum([v \in NodeSet(G) |-> Clustering(G, v)], NodeSet(G)),
         Rat(1, NumberOfNodes(G)))

\* nx.degree_assortativity_coefficient(G): the Pearson correlation of the
\* degrees at the two ends of the edges, each edge taken in both
\* directions; nan when the degrees at the ends do not vary (no edge too)
DegreeAssortativity(G) ==
    LET ends == {<<u, v>> \in NodeSet(G) \X NodeSet(G) : v \in Adj(G, u)}
        n    == Cardinality(ends)
        sx   == ISum([p \in ends |-> Degree(G, p[1])], ends)
        sxx  == ISum([p \in ends |-> Degree(G, p[1]) * Degree(G, p[1])], ends)
        sxy  == ISum([p \in ends |-> Degree(G, p[1]) * Degree(G, p[2])], ends)
        var  == n * sxx - sx * sx
    IN  IF var = 0 THEN NaN ELSE Rat(n * sxy - sx * sx, var)

\* sorted(degree_sequence)
RECURSIVE SortedInts(_)
SortedInts(seq) ==
    IF seq = <<>> THEN <<>>
    ELSE LET least == CHOOSE i \in DOMAIN seq : \A j \in DOMAIN seq : seq[i] <= seq[j]
         IN  <<seq[least]>>
               \o SortedInts([k \in 1..(Len(seq) - 1) |-> IF k < least THEN seq[k] ELSE seq[k + 1]])

\* lines 288-311; no call in the try block raises on a graph with a node
AnalyzeStructure(G) ==
    IF NumberOfNodes(G) = 0 THEN <<>>
    ELSE LET degree_sequence == [i \in DOMAIN G.nodes |-> Degree(G, G.nodes[i])]
             sorted == SortedInts(degree_sequence)
             n      == Len(degree_sequence)
         IN  [average_degree      |-> Rat(ISum(degree_sequence, DOMAIN degree_sequence), n),
              diameter            |-> IF IsConnected(G) THEN Diameter(G) ELSE Disconnected,
              average_clustering  |-> AverageClustering(G),
              assortativity       |-> DegreeAssortativity(G),
              degree_distribution |-> [min    |-> sorted[1],
                                       max    |-> sorted[n],
                                       median |-> sorted[(n \div 2) + 1]]]

-----------------------------------------------------------------------------
(* PowerMapper._generate_key_findings                                      *)

\* a finding is a format string with the name and the number put into it
Finding(text, name, number) == [text |-> text, name |-> name, number |-> number]

Insufficient == Finding("Insufficient data for detailed analysis", <<>>, 0)
Dense == Finding("Highly interconnected network (dense structure)", <<>>, 0)
Sparse == Finding("Sparse network with limited connections", <<>>, 0)
Moderate == Finding("Moderately connected network", <<>>, 0)

\* f"{x:.3f}": the thousandths of x, rounded to the nearest, a tie to even
Thousandths(x) ==
    LET q == (x[1] * 1000) \div x[2]
        r == (x[1] * 1000) % x[2]
    IN  IF 2 * r > x[2] \/ (2 * r = x[2] /\ q % 2 = 1) THEN q + 1 ELSE q

\* line 322, max(..., key=...): the first node with the largest degree
\* centrality; order is the order of the map, the node order of the graph it
\* was computed on
MostCentral(order, dc) ==
    order[CHOOSE i \in DOMAIN order :
              /\ \A j \in DOMAIN order : ~RLt(dc[order[i]], dc[order[j]])
              /\ \A j \in 1..(i - 1) : RLt(dc[order[j]], dc[order[i]])]

\* lines 321-324
MostCentralFinding(order, ents, dc) ==
    LET node == MostCentral(order, dc)
        entity_name == IF Has(ents.val[node], "name") THEN ents.val[node].name
                       ELSE <<"E","n","t","i","t","y"," ">> \o node
    IN  Finding("Most central entity: {entity_name} (centrality: {:.3f})",
                entity_name, Thousandths(dc[node]))

\* line 328, max(..., key=...): the first of the largest communities
LargestCommunity(communities) ==
    communities[CHOOSE i \in DOMAIN communities :
                    /\ \A j \in DOMAIN communities : communities[i].size >= communities[j].size
                    /\ \A j \in 1..(i - 1) : communities[j].size < communities[i].size]

\* lines 327-330
CommunityFindings(communities) ==
    LET largest == LargestCommunity(communities.communities)
    IN  <<Finding("Network divided into {community_count} communities",
                  <<>>, communities.community_count),
          Finding("Largest community has {size} entities",
                  <<>>, largest.size)>>

\* a variant whose thresholds include the bounds
DensityFindingInclusive(G) ==
    LET density == Density(G)
    IN  IF ~RLt(density, Rat(1, 2)) THEN Dense
        ELSE IF ~RLt(Rat(1, 10), density) THEN Sparse
        ELSE Moderate

\* lines 333-340
DensityFinding(G) ==
    LET density == Density(G)
    IN  IF RLt(Rat(1, 2), density) THEN Dense
        ELSE IF RLt(density, Rat(1, 10)) THEN Sparse
        ELSE Moderate

\* line 323: self.entities[most_central[0]] raises KeyError when the most
\* central node of the map is no key of the entity table
KeyFindingsRaise(ents, order, centrality) ==
    /\ DOMAIN centrality # {}
    /\ ~InDict(ents, MostCentral(order, centrality.degree_centrality))

\* a variant that adds the entry for insufficient data and goes on
GenerateKeyFindingsGoesOn(G, ents, order, centrality, communities) ==
    (IF DOMAIN centrality = {} THEN <<Insufficient>> ELSE <<>>)
       \o (IF Has(centrality, "degree_centrality") /\ DOMAIN centrality.degree_centrality # {}
           THEN <<MostCentralFinding(order, ents, centrality.degree_centrality)>> ELSE <<>>)
       \o (IF communities.communities # <<>> THEN CommunityFindings(communities) ELSE <<>>)
       \o (IF NumberOfNodes(G) > 0 THEN <<DensityFinding(G)>> ELSE <<>>)

\* lines 313-342; the communities dict always has its three keys, so only
\* an empty centrality map gives the single entry
GenerateKeyFindings(G, ents, order, centrality, communities) ==
    IF DOMAIN centrality = {} THEN <<Insufficient>>
    ELSE (IF Has(centrality, "degree_centrality") /\ DOMAIN centrality.degree_centrality # {}
          THEN <<MostCentralFinding(order, ents, centrality.degree_centrality)>> ELSE <<>>)
           \o (IF communities.communities # <<>> THEN CommunityFindings(communities) ELSE <<>>)
           \o (IF NumberOfNodes(G) > 0 THEN <<DensityFinding(G)>> ELSE <<>>)

-----------------------------------------------------------------------------
(* PowerMapper.analyze_network: the stages after _build_network and the    *)
(* result assembled from them.                                             *)

\* lines 53-58; E and R are the caller's lists
Summary(G, E, R) ==
    [entity_count         |-> Len(E),
     relationship_count   |-> Len(R),
     network_density      |-> Density(G),
     connected_components |-> NumberConnectedComponents(G)]

\* lines 52-64
AssembleResult(summary, centrality, communities, influence, structure, findings) ==
    [summary             |-> summary,
     centrality          |-> centrality,
     communities         |-> communities,
     influence_rankings  |-> influence,
     structural_analysis |-> structure,
     key_findings        |-> findings]

\* the partitions Louvain can return when _detect_communities calls it
LouvainChoices(G) == IF NumberOfEdges(G) < 2 THEN {{}} ELSE LouvainOutcomes(G)

RaisedTypeError == [raised |-> "TypeError"]

\* _build_network on an engine whose graph is G0 and then the stages of
\* lines 47-58 that do not depend on what Louvain returns
Prepared(G0, E, R) ==
    LET b      == BuildNetwork(G0, E, R)
        raises == IF b.raised THEN "TypeError"
                  ELSE IF InfluenceScoresRaise(b.graph, b.entities) THEN "KeyError"
                  ELSE ""
        ok     == raises = ""
        scores == IF ok THEN InfluenceMap(b.graph, b.entities) ELSE <<>>
    IN  [E          |-> b.E,
         entities   |-> b.entities,
         graph      |-> b.graph,
         raises     |-> raises,
         scores     |-> scores,
         summary    |-> IF ok THEN Summary(b.graph, b.E, R) ELSE <<>>,
         centrality |-> IF ok THEN CalculateCentrality(b.graph) ELSE <<>>,
         influence  |-> IF ok THEN CalculateInfluenceScores(b.graph, b.entities, scores)
                        ELSE <<>>,
         structure  |-> IF ok THEN AnalyzeStructure(b.graph) ELSE <<>>]

\* what the call returns when Louvain returns louvain: the result, or the
\* exception that leaves the call
Completed(pre, louvain) ==
    IF pre.raises # "" THEN [raised |-> pre.raises]
    ELSE LET communities == DetectCommunities(pre.graph, pre.entities, pre.scores, louvain)
         IN  AssembleResult(pre.summary, pre.centrality, communities, pre.influence,
                            pre.structure,
                            GenerateKeyFindings(pre.graph, pre.entities, pre.graph.nodes,
                                                pre.centrality, communities))

\* one whole call on an engine whose graph is G0, when Louvain returns
\* louvain
AnalyzeNetworkCall(G0, E, R, louvain) ==
    LET pre == Prepared(G0, E, R)
    IN  [E        |-> pre.E,
         entities |-> pre.entities,
         graph    |-> pre.graph,
         result   |-> Completed(pre, louvain)]

\* the graph a call builds
BuiltGraph(G0, E, R) == BuildNetwork(G0, E, R).graph

-----------------------------------------------------------------------------
(* The inputs the callers draw from.                                       *)

IdA == <<"a">>
IdB == <<"b">>
IdC == <<"c">>

\* every sequence over S of length at most n
SeqsUpTo(S, n) == UNION {[1..k -> S] : k \in 0..n}

\* entity records: with an id, with a name only (its id is synthesized
\* from the name, here "c"), with neither (its id is entity_<index>)
EntityRecs ==
    {[id |-> IdA], [id |-> IdB], [name |-> <<"C", " ">>], <<>>}

\* relationship records: ordered pairs, a self-reference, endpoints that
\* may be no entity, no strength (the default), and strengths below and at
\* the threshold
RelEndpoints == {<<IdA, IdB>>, <<IdB, IdA>>, <<IdA, IdA>>, <<IdA, IdC>>, <<IdC, IdB>>}
Strengths == {min_relationship_strength \div 2, min_relationship_strength}
RelRecs ==
    {[source |-> p[1], target |-> p[2]] : p \in RelEndpoints}
      \cup {[source |-> IdA, target |-> IdB, strength |-> w] : w \in Strengths}

\* typed entities for the scoring runs: a prefix of a, b, c; a and b have
\* no type or any of these types, c has no type or is a government
Media == <<"m","e","d","i","a">>
CapitalGovernment == <<"G","o","v","e","r","n","m","e","n","t">>
TypeChoices == {Government, Corporation, Person, Organization, Media, CapitalGovernment}
TypedRecs(id) == {[id |-> id]} \cup {[id |-> id, type |-> t] : t \in TypeChoices}
TypedEntityLists ==
    {<<>>}
      \cup {<<x>> : x \in TypedRecs(IdA)}
      \cup {<<x, y>> : x \in TypedRecs(IdA), y \in TypedRecs(IdB)}
      \cup {<<x, y, z>> : x \in TypedRecs(IdA), y \in TypedRecs(IdB),
                           z \in {[id |-> IdC], [id |-> IdC, type |-> Government]}}
TypedRelRecs ==
    {[source |-> p[1], target |-> p[2]] :
        p \in {<<IdA, IdB>>, <<IdB, IdC>>, <<IdC, IdA>>, <<IdB, IdB>>}}

\* the inputs of the callers that call repeatedly or concurrently
SmallEntityRecs == {[id |-> IdA], [name |-> <<"B">>]}
SmallRelRecs == {[source |-> IdA, target |-> IdB]}
SmallEntityLists == SeqsUpTo(SmallEntityRecs, MaxSmallEntities)
SmallRelLists == SeqsUpTo(SmallRelRecs, MaxSmallRels)

\* networks of every density: the entities a, b, c, ... in this order and
\* relationships along the chain a - b - c - d
ChainId(k) == <<LowerChars[k]>>
ChainEntities(n) == [k \in 1..n |-> [id |-> ChainId(k)]]
ChainRelRecs == {[source |-> ChainId(k), target |-> ChainId(k + 1)] : k \in 1..3}

\* records as upstream data delivers them: several records with the id a
\* (one of them by its name only) that differ in their attributes, a type
\* that is null, and a strength that is null
UpperA == <<"A">>
RawEntityRecs ==
    {[id |-> IdA], [id |-> IdA, type |-> Person], [name |-> UpperA],
     [id |-> IdB], [id |-> IdB, type |-> PyNone]}
RawRelRecs ==
    {[source |-> IdA, target |-> IdB],
     [source |-> IdA, target |-> IdB, strength |-> NoneStrength]}

-----------------------------------------------------------------------------
(* State.                                                                  *)

NoResult == [none |-> TRUE]
HasResult(r) == Has(r, "summary")

Threads == {1, 2}

IdleThread ==
    [pc |-> "idle", E |-> <<>>, R |-> <<>>,
     centrality |-> <<>>, order |-> <<>>, communities |-> <<>>, influence |-> <<>>,
     structure |-> <<>>, result |-> NoResult]

\* PowerMapper.__init__
InitEngine ==
    /\ graph = EmptyGraph
    /\ entities = EmptyDict
    /\ relationships = <<>>
    /\ relAliased = FALSE
    /\ analysis_cache = <<>>
    /\ result = NoResult

\* one call on lists with untyped records
Init ==
    /\ InitEngine
    /\ inE \in SeqsUpTo(EntityRecs, MaxEntities)
    /\ inR \in SeqsUpTo(RelRecs, MaxRels)
    /\ budget = 1
    /\ threads = [t \in Threads |-> IdleThread]

\* one call on typed entities
InitScore ==
    /\ InitEngine
    /\ inE \in TypedEntityLists
    /\ inR \in SeqsUpTo(TypedRelRecs, MaxTypedRels)
    /\ budget = 1
    /\ threads = [t \in Threads |-> IdleThread]

\* a caller that calls analyze_network and clear_network again and again
InitSeq ==
    /\ InitEngine
    /\ inE \in SmallEntityLists
    /\ inR \in SmallRelLists
    /\ budget = MaxCalls
    /\ threads = [t \in Threads |-> IdleThread]

\* one call on records as upstream data delivers them
InitRecords ==
    /\ InitEngine
    /\ inE \in SeqsUpTo(RawEntityRecs, MaxRawEntities)
    /\ inR \in SeqsUpTo(RawRelRecs, MaxRawRels)
    /\ budget = 1
    /\ threads = [t \in Threads |-> IdleThread]

\* one call on a network of some density
InitChain ==
    /\ InitEngine
    /\ inE \in {ChainEntities(n) : n \in 0..MaxChainEntities}
    /\ inR \in SeqsUpTo(ChainRelRecs, MaxChainRels)
    /\ budget = 1
    /\ threads = [t \in Threads |-> IdleThread]

\* two callers on one engine
InitConc ==
    /\ InitEngine
    /\ inE = <<>>
    /\ inR = <<>>
    /\ budget = 0
    /\ threads \in [Threads -> {[IdleThread EXCEPT !.pc = "build", !.E = e, !.R = r] :
                                   e \in SmallEntityLists, r \in SmallRelLists}]

-----------------------------------------------------------------------------
(* Actions.                                                                *)

\* analyze_network(inE, inR), run to completion
AnalyzeNetwork ==
    /\ budget > 0
    /\ LET pre == Prepared(graph, inE, inR)
       IN  /\ graph' = pre.graph
           /\ entities' = pre.entities
           /\ inE' = pre.E
           /\ \E louvain \in LouvainChoices(pre.graph) : result' = Completed(pre, louvain)
    /\ relationships' = inR
    /\ relAliased' = TRUE
    /\ budget' = budget - 1
    /\ UNCHANGED <<inR, analysis_cache, threads>>

\* clear_network(): self.relationships.clear() empties the list object the
\* field refers to
ClearNetwork ==
    /\ graph' = GraphClear(graph)
    /\ entities' = EmptyDict
    /\ relationships' = <<>>
    /\ inR' = IF relAliased THEN <<>> ELSE inR
    /\ analysis_cache' = <<>>
    /\ UNCHANGED <<relAliased, inE, result, budget, threads>>

\* the caller makes new lists for its next call; the engine keeps the old
\* relationship list
NewInputs ==
    /\ budget > 0
    /\ inE' \in SmallEntityLists
    /\ inR' \in SmallRelLists
    /\ relAliased' = FALSE
    /\ UNCHANGED <<graph, entities, relationships, analysis_cache, result, budget, threads>>

\* the stages of analyze_network run by caller t; each reads self.graph
\* and self.entities as they are when it runs
BuildStage(t) ==
    /\ threads[t].pc = "build"
    /\ LET b == BuildNetwork(graph, threads[t].E, threads[t].R)
       IN  /\ graph' = b.graph
           /\ entities' = b.entities
           /\ threads' = IF b.raised
                         THEN [threads EXCEPT ![t].pc = "done", ![t].E = b.E,
                                              ![t].result = RaisedTypeError]
                         ELSE [threads EXCEPT ![t].pc = "centrality", ![t].E = b.E]
    /\ relationships' = threads[t].R
    /\ relAliased' = FALSE
    /\ UNCHANGED <<analysis_cache, inE, inR, result, budget>>

CentralityStage(t) ==
    /\ threads[t].pc = "centrality"
    /\ threads' = [threads EXCEPT ![t].pc = "communities",
                                  ![t].centrality = CalculateCentrality(graph),
                                  ![t].order = graph.nodes]
    /\ UNCHANGED <<graph, entities, relationships, relAliased, analysis_cache,
                   inE, inR, result, budget>>

CommunityStage(t) ==
    /\ threads[t].pc = "communities"
    /\ \E louvain \in LouvainChoices(graph) :
          threads' = [threads EXCEPT
                        ![t].pc = "influence",
                        ![t].communities =
                            DetectCommunities(graph, entities,
                                              InfluenceMap(graph, entities), louvain)]
    /\ UNCHANGED <<graph, entities, relationships, relAliased, analysis_cache,
                   inE, inR, result, budget>>

InfluenceStage(t) ==
    /\ threads[t].pc = "influence"
    /\ threads' = IF InfluenceScoresRaise(graph, entities)
                  THEN [threads EXCEPT ![t].pc = "done", ![t].result = RaisedKeyError]
                  ELSE [threads EXCEPT ![t].pc = "structure",
                                       ![t].influence =
                                           CalculateInfluenceScores(
                                               graph, entities,
                                               InfluenceMap(graph, entities))]
    /\ UNCHANGED <<graph, entities, relationships, relAliased, analysis_cache,
                   inE, inR, result, budget>>

StructureStage(t) ==
    /\ threads[t].pc = "structure"
    /\ threads' = [threads EXCEPT ![t].pc = "summary",
                                  ![t].structure = AnalyzeStructure(graph)]
    /\ UNCHANGED <<graph, entities, relationships, relAliased, analysis_cache,
                   inE, inR, result, budget>>

\* lines 52-64: the summary and the key findings
SummaryStage(t) ==
    /\ threads[t].pc = "summary"
    /\ threads' =
         IF KeyFindingsRaise(entities, threads[t].order, threads[t].centrality)
         THEN [threads EXCEPT ![t].pc = "done", ![t].result = RaisedKeyError]
         ELSE [threads EXCEPT
                 ![t].pc = "done",
                 ![t].result =
                     AssembleResult(Summary(graph, threads[t].E, threads[t].R),
                                    threads[t].centrality,
                                    threads[t].communities,
                                    threads[t].influence,
                                    threads[t].structure,
                                    GenerateKeyFindings(graph, entities, threads[t].order,
                                                        threads[t].centrality,
                                                        threads[t].communities))]
    /\ UNCHANGED <<graph, entities, relationships, relAliased, analysis_cache,
                   inE, inR, result, budget>>

Next == AnalyzeNetwork

NextSeq == AnalyzeNetwork \/ ClearNetwork \/ NewInputs

NextConc ==
    \E t \in Threads :
        \/ BuildStage(t) \/ CentralityStage(t) \/ CommunityStage(t)
        \/ InfluenceStage(t) \/ StructureStage(t) \/ SummaryStage(t)

Spec == Init /\ [][Next]_vars
SpecScore == InitScore /\ [][Next]_vars
SpecSeq == InitSeq /\ [][NextSeq]_vars
SpecConc == InitConc /\ [][NextConc]_vars
SpecRecords == InitRecords /\ [][Next]_vars
SpecChain == InitChain /\ [][Next]_vars

-----------------------------------------------------------------------------
(* Graph construction: C1 - C4.                                            *)

\* the single call of the caller has been made
AfterCall == budget = 0

\* the caller's entity ids once the call has written the missing ones
InputIds == {inE[i].id : i \in DOMAIN inE}

\* rel.get('strength', 0.5)
EffectiveStrength(rel) == IF Has(rel, "strength") THEN rel.strength ELSE DefaultStrength

\* both endpoints of the record are entity ids
EndpointsKnown(rel) ==
    /\ Has(rel, "source") /\ rel.source \in InputIds
    /\ Has(rel, "target") /\ rel.target \in InputIds

\* the records of the caller's list that end up in the graph
SurvivingRecords ==
    {i \in DOMAIN inR : EndpointsKnown(inR[i])
                          /\ EffectiveStrength(inR[i]) >= min_relationship_strength}

\* C1: summary.relationship_count counts only the relationships that
\* survive graph construction; a relationship whose source or target is no
\* entity id is not counted.
C1_RelationshipCountCountsSurvivors ==
    HasResult(result) =>
        result.summary.relationship_count = Cardinality(SurvivingRecords)

\* C2: after _build_network every edge has both endpoints among the nodes
\* and among the keys of the entity table, and the nodes are exactly the
\* entity ids: a relationship with an unknown source or target neither
\* becomes an edge nor adds a node.
C2_EdgeEndpointsAreNodes ==
    AfterCall =>
        /\ \A e \in Edges(graph) : e \subseteq NodeSet(graph) /\ e \subseteq Range(entities.keys)
        /\ NodeSet(graph) = InputIds
        /\ Range(entities.keys) = InputIds
        /\ \A i \in DOMAIN inR :
              ~EndpointsKnown(inR[i]) /\ Has(inR[i], "source") /\ Has(inR[i], "target")
                 => {inR[i].source, inR[i].target} \notin Edges(graph)

\* the call received a relationship with an unknown endpoint next to one
\* that became an edge
C2_Witness ==
    /\ HasResult(result)
    /\ Edges(graph) # {}
    /\ \E i \in DOMAIN inR : ~EndpointsKnown(inR[i])

\* the attribute dict of edge e when only the records in keep are applied,
\* in list order
RECURSIVE MergedAttrs(_, _, _)
MergedAttrs(e, keep, i) ==
    IF i = 0 THEN <<>>
    ELSE LET before == MergedAttrs(e, keep, i - 1)
         IN  IF i \in keep /\ {inR[i].source, inR[i].target} = e
             THEN Update(before, inR[i])
             ELSE before

\* the known-endpoint records whose effective strength reaches the threshold
AtOrAboveThreshold ==
    {i \in DOMAIN inR : EndpointsKnown(inR[i])
                          /\ ~(EffectiveStrength(inR[i]) < min_relationship_strength)}

\* C3: a relationship whose effective strength (strength, or 0.5 when
\* absent) is below min_relationship_strength never creates or updates an
\* edge, even with valid endpoints; one whose strength equals the threshold
\* is kept.
C3_SubThresholdDropped ==
    AfterCall =>
        /\ Edges(graph) = {{inR[i].source, inR[i].target} : i \in AtOrAboveThreshold}
        /\ \A e \in Edges(graph) :
              graph.eattr[e] = MergedAttrs(e, AtOrAboveThreshold, Len(inR))
        /\ \A i \in DOMAIN inR :
              EndpointsKnown(inR[i]) /\ EffectiveStrength(inR[i]) = min_relationship_strength
                 => {inR[i].source, inR[i].target} \in Edges(graph)

\* a record at the threshold made the edge and a later record below the
\* threshold, between the same entities, left it alone
C3_Witness ==
    /\ HasResult(result)
    /\ Len(inR) = 2
    /\ EndpointsKnown(inR[1]) /\ EndpointsKnown(inR[2])
    /\ EffectiveStrength(inR[1]) = min_relationship_strength
    /\ EffectiveStrength(inR[2]) < min_relationship_strength
    /\ {inR[1].source, inR[1].target} = {inR[2].source, inR[2].target}
    /\ graph.eattr[{inR[1].source, inR[1].target}].strength = min_relationship_strength

\* C4: the graph built by _build_network never contains a self-loop; a
\* record whose source equals its target is dropped.
C4_NoSelfLoops ==
    \A v \in NodeSet(graph) : v \notin Adj(graph, v)

-----------------------------------------------------------------------------
(* Calls on one engine: C5 - C6.                                           *)

\* C5: the result of analyze_network(E, R) is a function of E and R only:
\* whatever calls of analyze_network and clear_network came before, the
\* call returns what a fresh engine returns for the same lists, leaves the
\* graph and the entity table of a fresh engine, and repeating the call
\* on the lists as the call left them returns the same result.
C5_ResultDependsOnInputsOnly ==
    [][budget' < budget =>
         LET fresh  == Prepared(EmptyGraph, inE, inR)
             repeat == Prepared(graph', inE', inR')
         IN  /\ graph' = fresh.graph
             /\ entities' = fresh.entities
             /\ repeat.graph = graph'
             /\ \E louvain \in LouvainChoices(graph') :
                   /\ result' = Completed(fresh, louvain)
                   /\ Completed(repeat, louvain) = result']_vars

\* the engine has returned from a second call, which built a one-node graph
C5_Witness ==
    /\ budget + 2 <= MaxCalls
    /\ relAliased
    /\ HasResult(result)
    /\ result.summary.entity_count = 1
    /\ NumberOfNodes(graph) = 1

\* what caller t can get when its call runs alone
AloneResults(t) ==
    {AnalyzeNetworkCall(EmptyGraph, threads[t].E, threads[t].R, louvain).result :
        louvain \in LouvainChoices(BuiltGraph(EmptyGraph, threads[t].E, threads[t].R))}

\* C6: two analyze_network calls whose stages interleave on one engine
\* share no mutable state: each returns exactly the result it returns when
\* run alone on its own inputs.
C6_InterleavedCallsIsolated ==
    \A t \in Threads : threads[t].pc = "done" => threads[t].result \in AloneResults(t)

-----------------------------------------------------------------------------
(* Influence scores: C7 - C9.                                              *)

Rankings == result.influence_rankings

Hundred == Rat(100, 1)

\* C7: every record of influence_rankings has 0 <= influence_score <= 100,
\* for every input: isolated nodes, a single node, duplicate relationship
\* records and self-referential relationship records included.
C7_InfluenceBounded ==
    HasResult(result) =>
        \A i \in DOMAIN Rankings :
            /\ RLe(RZero, Rankings[i].influence_score)
            /\ RLe(Rankings[i].influence_score, Hundred)

\* a self-referential record raised a node's degree centrality above 1 and
\* its score was cut to 100, next to a record below 100
C7_Witness ==
    /\ HasResult(result)
    /\ \E v \in NodeSet(graph) :
          /\ v \in Adj(graph, v)
          /\ RLt(ROne, DegreeCentrality(graph)[v])
          /\ \E i \in DOMAIN Rankings :
                Rankings[i].id = v /\ Rankings[i].influence_score = Hundred
    /\ \E i \in DOMAIN Rankings : RLt(Rankings[i].influence_score, Hundred)

\* C8: influence_rankings has exactly one record per graph node, each with
\* influence_score populated, and is sorted non-increasing by
\* influence_score.
C8_RankingsCompleteAndSorted ==
    HasResult(result) =>
        /\ Len(Rankings) = NumberOfNodes(graph)
        /\ \A v \in NodeSet(graph) :
              Cardinality({i \in DOMAIN Rankings : Rankings[i].id = v}) = 1
        /\ \A i \in DOMAIN Rankings :
              Rankings[i].id \in NodeSet(graph) /\ Has(Rankings[i], "influence_score")
        /\ \A i \in DOMAIN Rankings :
              i > 1 => RLe(Rankings[i].influence_score, Rankings[i - 1].influence_score)

\* the sort moved a later node in front of the first node
C8_Witness ==
    /\ HasResult(result)
    /\ Len(Rankings) = 3
    /\ Rankings[1].id # graph.nodes[1]
    /\ RLt(Rankings[2].influence_score, Rankings[1].influence_score)
    /\ RLt(Rankings[3].influence_score, Rankings[2].influence_score)

\* the entity's type is the named one, whatever the case of its letters
TypeNamed(entity, name) == Has(entity, "type") /\ StrLower(entity.type) = name

\* the multiplier the statement gives the entity
StatedMultiplier(entity) ==
    IF TypeNamed(entity, Government) THEN Rat(13, 10)
    ELSE IF TypeNamed(entity, Corporation) THEN Rat(12, 10)
    ELSE IF TypeNamed(entity, Person) THEN Rat(11, 10)
    ELSE ROne

\* min(100, 100 * (0.4 * degree + 0.6 * betweenness) * multiplier)
StatedInfluence(v) ==
    LET weighted == RAdd(RMul(Rat(2, 5), DegreeCentrality(graph)[v]),
                         RMul(Rat(3, 5), BetweennessCentrality(graph)[v]))
    IN  RMin(Hundred, RMul(RMul(Hundred, weighted), StatedMultiplier(entities.val[v])))

-----------------------------------------------------------------------------
(* Centrality of a one-edge graph: C10.                                    *)

\* the graph has exactly one edge, and it joins two nodes
OneEdgeTwoNodes ==
    /\ NumberOfEdges(graph) = 1
    /\ \A e \in Edges(graph) : Cardinality(e) = 2

TheEdge == CHOOSE e \in Edges(graph) : TRUE

\* C10 as stated: for a graph with exactly one edge joining two nodes, the
\* eigenvector and the closeness centrality reported for each of the two
\* nodes equal the node's degree centrality.
C10_OneEdgeAllEqualDegree ==
    HasResult(result) /\ OneEdgeTwoNodes =>
        \A v \in TheEdge :
            /\ result.centrality.eigenvector_centrality[v]
                  = result.centrality.degree_centrality[v]
            /\ result.centrality.closeness_centrality[v]
                  = result.centrality.degree_centrality[v]

\* C10: for a graph with exactly one edge joining two nodes, the closeness
\* centrality of each of the two nodes equals its degree centrality; the
\* eigenvector centrality is the degree centrality map when the graph has
\* further nodes (it is disconnected, the fallback applies), and when the
\* two nodes are the whole graph it is the computed one, the same for both
\* nodes, between 0.70 and 0.71, while their degree centrality is 1.
C10_OneEdgeCentrality ==
    HasResult(result) /\ OneEdgeTwoNodes =>
        LET c == result.centrality
        IN  /\ \A v \in TheEdge : c.closeness_centrality[v] = c.degree_centrality[v]
            /\ NumberOfNodes(graph) > 2 =>
                  c.eigenvector_centrality = c.degree_centrality
            /\ NumberOfNodes(graph) = 2 =>
                  \A u, v \in TheEdge :
                      /\ c.degree_centrality[v] = ROne
                      /\ c.eigenvector_centrality[u] = c.eigenvector_centrality[v]
                      /\ RLt(Rat(70, 100), c.eigenvector_centrality[v])
                      /\ RLt(c.eigenvector_centrality[v], Rat(71, 100))

\* a one-edge graph with a third, isolated node: closeness and degree
\* centrality of the endpoints are both 1/2
C10_Witness ==
    /\ HasResult(result)
    /\ OneEdgeTwoNodes
    /\ NumberOfNodes(graph) = 3
    /\ \A v \in TheEdge : result.centrality.closeness_centrality[v] = Rat(1, 2)

-----------------------------------------------------------------------------
(* Degenerate graphs: C11 - C13.                                           *)

\* the built graph has no node or no edge
NoNodesOrNoEdges == NumberOfNodes(graph) = 0 \/ NumberOfEdges(graph) = 0

\* C11: when the built graph has no nodes or no edges, _calculate_centrality
\* returns an empty map and _detect_communities returns an empty community
\* list with modularity 0.0 and community_count 0, and neither raises.
C11_EmptyGraphEmptyAnalyses ==
    AfterCall /\ NoNodesOrNoEdges =>
        /\ HasResult(result)
        /\ DOMAIN result.centrality = {}
        /\ result.communities.communities = <<>>
        /\ result.communities.modularity = RZero
        /\ result.communities.community_count = 0

\* the call was given entities and relationships and none of the
\* relationships became an edge
C11_Witness ==
    /\ AfterCall
    /\ HasResult(result)
    /\ NumberOfNodes(graph) = 2
    /\ Len(inR) = 2
    /\ NumberOfEdges(graph) = 0
    /\ DOMAIN result.centrality = {}

\* the community list of the result and the nodes with at least one edge
Communities == result.communities.communities

ConnectedNodes == {v \in NodeSet(graph) : Degree(graph, v) > 0}

\* the community at position i holds the entity of node v and nothing else
SingletonOf(i, v) ==
    /\ Communities[i].size = 1
    /\ Communities[i].entities = <<entities.val[v]>>

\* C12 as stated: for a graph with 0 or 1 edges the communities list has
\* exactly one singleton community for each node with at least one edge and
\* no other community, and modularity is 0.0.
C12_SingletonPerConnectedNode ==
    AfterCall /\ HasResult(result) /\ NumberOfEdges(graph) < 2 =>
        /\ Len(Communities) = Cardinality(ConnectedNodes)
        /\ \A v \in ConnectedNodes : \E i \in DOMAIN Communities : SingletonOf(i, v)
        /\ \A i \in DOMAIN Communities : \E v \in ConnectedNodes : SingletonOf(i, v)
        /\ result.communities.modularity = RZero

\* C12, amended: for a graph with exactly 1 edge the communities list has
\* exactly one singleton community for each node of the graph, in node
\* order, whether or not the node has an edge, and no other community; for
\* a graph with 0 edges the communities list is empty; in both cases
\* modularity is 0.0.
C12_SingletonPerNode ==
    AfterCall /\ HasResult(result) /\ NumberOfEdges(graph) < 2 =>
        /\ NumberOfEdges(graph) = 0 => Communities = <<>>
        /\ NumberOfEdges(graph) = 1 =>
              /\ Len(Communities) = NumberOfNodes(graph)
              /\ \A i \in DOMAIN Communities : SingletonOf(i, graph.nodes[i])
        /\ result.communities.community_count = Len(Communities)
        /\ result.communities.modularity = RZero

\* a call has built three nodes and one edge, which leaves one node without
\* an edge, and returned three communities
C12_Witness ==
    /\ AfterCall
    /\ HasResult(result)
    /\ NumberOfNodes(graph) = 3
    /\ NumberOfEdges(graph) = 1
    /\ Cardinality(ConnectedNodes) = 2
    /\ Len(Communities) = 3

-----------------------------------------------------------------------------
(* Degenerate and malformed input: C13 - C16                               *)

\* no entity, no relationship, no relationship that survives, or a graph
\* without an edge
Degenerate ==
    \/ inE = <<>>
    \/ inR = <<>>
    \/ SurvivingRecords = {}
    \/ NumberOfEdges(graph) = 0

\* C13: analyze_network never raises for well-typed but degenerate input
\* (empty entities, empty relationships, entities with no surviving
\* relationship, fully disconnected graph); analyze_network([], []) returns
\* entity_count 0, relationship_count 0, an empty centrality map, an empty
\* community list and an empty influence_rankings list.
C13_DegenerateInputReturns ==
    AfterCall /\ Degenerate =>
        /\ HasResult(result)
        /\ inE = <<>> /\ inR = <<>> =>
              /\ result.summary.entity_count = 0
              /\ result.summary.relationship_count = 0
              /\ DOMAIN result.centrality = {}
              /\ result.communities.communities = <<>>
              /\ result.influence_rankings = <<>>

\* analyze_network([], []) has returned
C13_Witness ==
    /\ AfterCall
    /\ inE = <<>>
    /\ inR = <<>>
    /\ HasResult(result)
    /\ result.summary.entity_count = 0
    /\ result.influence_rankings = <<>>

\* C14: graph construction never raises because of one malformed record: a
\* record with missing or wrongly-valued fields (for example a relationship
\* whose strength is present but null, with both endpoints valid) is
\* repaired or dropped, and analyze_network still returns a result.
C14_MalformedRecordTolerated ==
    AfterCall => HasResult(result)

\* C15: any two distinct input entity records that both lack an id receive
\* distinct synthesized ids within one run, even when their names are equal
\* or normalize to the same slug, so each of them becomes its own graph node.
C15_SynthesizedIdsDistinct ==
    [][budget' < budget =>
         \A i, j \in DOMAIN inE :
             i # j /\ ~Has(inE[i], "id") /\ ~Has(inE[j], "id") =>
                 /\ inE'[i].id # inE'[j].id
                 /\ {inE'[i].id, inE'[j].id} \subseteq NodeSet(graph')]_vars

\* the ids that several of the caller's records resolve to, and the last
\* record of an id in input order
DuplicatedIds ==
    {x \in InputIds : Cardinality({i \in DOMAIN inE : inE[i].id = x}) > 1}

LastRecord(x) ==
    inE[CHOOSE i \in DOMAIN inE :
            inE[i].id = x /\ \A j \in DOMAIN inE : inE[j].id = x => j <= i]

\* C16: when several input entity records resolve to the same id, the
\* entity table holds exactly one entry and the graph exactly one node for
\* that id, the attributes are those of the last such record in input
\* order, and every valid relationship that references that id still
\* becomes an edge.
C16_DuplicateIdsCollapse ==
    AfterCall =>
        \A x \in DuplicatedIds :
            /\ Cardinality({k \in DOMAIN entities.keys : entities.keys[k] = x}) = 1
            /\ Cardinality({k \in DOMAIN graph.nodes : graph.nodes[k] = x}) = 1
            /\ entities.val[x] = LastRecord(x)
            /\ graph.attr[x] = LastRecord(x)
            /\ HasResult(result) =>
                  \A i \in SurvivingRecords :
                      x \in {inR[i].source, inR[i].target} =>
                          {inR[i].source, inR[i].target} \in Edges(graph)

\* three records resolve to the id a, the first and the last with different
\* attributes, the table holds the last, and a relationship of a is an edge
C16_Witness ==
    /\ AfterCall
    /\ HasResult(result)
    /\ Len(inE) = 3
    /\ IdA \in DuplicatedIds
    /\ IdB \in InputIds
    /\ inE[1] # LastRecord(IdA)
    /\ entities.val[IdA] = LastRecord(IdA)
    /\ {IdA, IdB} \in Edges(graph)

-----------------------------------------------------------------------------
(* Key findings: C17, C18                                                  *)

KeyFindings == result.key_findings

\* C17: if the graph has no edges (so the centrality map and the community
\* list are empty), key_findings is exactly one entry stating insufficient
\* data and no other finding is emitted; if the graph has at least one edge,
\* that entry is not emitted.
C17_InsufficientDataIffNoEdges ==
    AfterCall /\ HasResult(result) =>
        /\ NumberOfEdges(graph) = 0 =>
              /\ DOMAIN result.centrality = {}
              /\ result.communities.communities = <<>>
              /\ KeyFindings = <<Insufficient>>
        /\ NumberOfEdges(graph) >= 1 =>
              /\ KeyFindings # <<>>
              /\ \A i \in DOMAIN KeyFindings : KeyFindings[i] # Insufficient

\* a call whose relationships were all dropped has built two nodes without
\* an edge and returned the single entry
C17_Witness ==
    /\ AfterCall
    /\ HasResult(result)
    /\ inR # <<>>
    /\ NumberOfNodes(graph) = 2
    /\ NumberOfEdges(graph) = 0
    /\ KeyFindings = <<Insufficient>>

\* the three findings about the density, and the number of ordered pairs
\* of distinct nodes, which is the denominator of the density 2m / n(n-1)
DensityFindings == {Dense, Sparse, Moderate}

NodePairs == NumberOfNodes(graph) * (NumberOfNodes(graph) - 1)

\* density > 0.5 and density < 0.1 in whole numbers; the density of a graph
\* with a single node is 0
DensityAboveHalf == NumberOfNodes(graph) > 1 /\ 4 * NumberOfEdges(graph) > NodePairs

DensityBelowTenth == NumberOfNodes(graph) <= 1 \/ 20 * NumberOfEdges(graph) < NodePairs

\* C18: whenever key findings are generated for a non-empty graph with
\* centrality results, exactly one density finding is emitted: highly
\* interconnected iff density > 0.5, sparse iff density < 0.1, moderately
\* connected otherwise, so density exactly 0.5 and exactly 0.1 are both
\* classified as moderately connected.
C18_OneDensityFinding ==
    AfterCall /\ HasResult(result) /\ NumberOfNodes(graph) > 0
              /\ DOMAIN result.centrality # {} =>
        /\ Cardinality({i \in DOMAIN KeyFindings : KeyFindings[i] \in DensityFindings}) = 1
        /\ Dense \in Range(KeyFindings) <=> DensityAboveHalf
        /\ Sparse \in Range(KeyFindings) <=> DensityBelowTenth
        /\ Moderate \in Range(KeyFindings) <=> ~DensityAboveHalf /\ ~DensityBelowTenth

\* four nodes and three edges, a density of exactly 0.5, reported as
\* moderately connected
C18_Witness ==
    /\ AfterCall
    /\ HasResult(result)
    /\ NumberOfNodes(graph) = 4
    /\ NumberOfEdges(graph) = 3
    /\ result.summary.network_density = Rat(1, 2)
    /\ Moderate \in Range(KeyFindings)

-----------------------------------------------------------------------------
(* Effects and failures: C19, C20                                          *)

\* C19: analyze_network has no side effect on its inputs: after the call,
\* every entity record and relationship record passed by the caller, and
\* both input sequences, have exactly the keys and values they had before
\* the call.
C19_InputsUnchanged ==
    [][budget' < budget => inE' = inE /\ inR' = inR]_vars

\* C20: a single analyze_network call either returns a result in which
\* centrality, communities, influence_rankings and structural_analysis are
\* all populated for the built graph, or raises; it never returns normally
\* with one of these sections silently empty or zeroed because an internal
\* computation of that section failed.  A section is populated when the
\* rankings have an entry per node, the structural analysis is there for a
\* graph with a node, and centrality and communities are there for a graph
\* with an edge; a score is zeroed when it is 0 for a node that has an edge.
C20_CompleteResultOrRaise ==
    AfterCall /\ HasResult(result) =>
        /\ Len(Rankings) = NumberOfNodes(graph)
        /\ NumberOfNodes(graph) > 0 => DOMAIN result.structural_analysis # {}
        /\ NumberOfEdges(graph) > 0 =>
              /\ DOMAIN result.centrality # {}
              /\ Communities # <<>>
        /\ \A i \in DOMAIN Rankings :
              Rankings[i].influence_score = RZero => Degree(graph, Rankings[i].id) = 0

-----------------------------------------------------------------------------
(* Centrality measures: C21 - C23                                          *)

Centrality == result.centrality

\* the graph has an edge and more than one connected component
DisconnectedWithEdge == NumberOfEdges(graph) >= 1 /\ ~IsConnected(graph)

\* C21: whenever the graph has at least one edge and is disconnected, the
\* eigenvector centrality map returned is identical to the degree
\* centrality map (same value for every node); the same holds when the
\* eigenvector computation fails or does not converge within the iteration
\* cap: for every cap within which the iteration on the graph does not
\* converge, what the code takes as eigenvector centrality is the degree
\* centrality map.
C21_EigenvectorFallsBackToDegree ==
    AfterCall /\ HasResult(result) /\ NumberOfEdges(graph) >= 1 =>
        /\ ~IsConnected(graph) =>
              /\ DOMAIN Centrality.eigenvector_centrality = NodeSet(graph)
              /\ \A v \in NodeSet(graph) :
                    Centrality.eigenvector_centrality[v] = Centrality.degree_centrality[v]
        /\ IsConnected(graph) /\ NumberOfNodes(graph) > 1 =>
              \A max_iter \in 0..MaxShortCap :
                  LET ev == EigenvectorWithin(graph, max_iter)
                  IN  ~ev.converged =>
                          EigenvectorOrFallback(Centrality.degree_centrality, ev)
                              = Centrality.degree_centrality

\* a call has built a graph of two components, one of them with two edges,
\* and the degree centralities in it differ from node to node
C21_Witness ==
    /\ AfterCall
    /\ HasResult(result)
    /\ DisconnectedWithEdge
    /\ NumberOfEdges(graph) = 2
    /\ Centrality.eigenvector_centrality = Centrality.degree_centrality
    /\ \E u, v \in NodeSet(graph) :
          /\ Centrality.degree_centrality[u] # RZero
          /\ Centrality.degree_centrality[v] # RZero
          /\ Centrality.degree_centrality[u] # Centrality.degree_centrality[v]

\* nx.betweenness_centrality on the subgraph induced by the connected
\* component of v, read at v
BetweennessInOwnComponent(v) == BetweennessOn(graph, Component(graph, v))[v]

\* C22: for a disconnected graph with at least one edge, the reported
\* betweenness of each node equals the betweenness computed on the induced
\* subgraph of that node's connected component alone (only paths inside the
\* component count), and every node that forms a single-node component has
\* betweenness 0.
C22_BetweennessPerComponent ==
    AfterCall /\ HasResult(result) /\ DisconnectedWithEdge =>
        /\ DOMAIN Centrality.betweenness_centrality = NodeSet(graph)
        /\ \A v \in NodeSet(graph) :
              /\ Centrality.betweenness_centrality[v] = BetweennessInOwnComponent(v)
              /\ Component(graph, v) = {v} =>
                    Centrality.betweenness_centrality[v] = RZero

\* a call has built the path a - b - c and a node apart from it: b lies on
\* the one shortest path of its component and has betweenness 1, the node
\* apart has 0
C22_Witness ==
    /\ AfterCall
    /\ HasResult(result)
    /\ DisconnectedWithEdge
    /\ \E v \in NodeSet(graph) :
          /\ Cardinality(Component(graph, v)) = 3
          /\ Centrality.betweenness_centrality[v] = ROne
    /\ \E v \in NodeSet(graph) :
          /\ Component(graph, v) = {v}
          /\ Centrality.betweenness_centrality[v] = RZero

\* the four measures of the centrality result
Measures ==
    {"degree_centrality", "betweenness_centrality",
     "eigenvector_centrality", "closeness_centrality"}

\* C23: whenever the graph has at least one edge, the centrality result
\* contains all four measures (degree, betweenness, eigenvector, closeness)
\* and each of the four maps has an entry for every graph node and for no
\* other id, whichever branch or fallback produced it (connected,
\* disconnected, isolated nodes present).
C23_FourMeasuresForEveryNode ==
    AfterCall /\ HasResult(result) /\ NumberOfEdges(graph) >= 1 =>
        /\ DOMAIN Centrality = Measures
        /\ \A m \in Measures : DOMAIN Centrality[m] = NodeSet(graph)

\* a call has built a graph with an edge and with a node that has no edge,
\* and each of the four maps has an entry for that node
C23_Witness ==
    /\ AfterCall
    /\ HasResult(result)
    /\ DisconnectedWithEdge
    /\ NumberOfNodes(graph) >= 4
    /\ \E v \in NodeSet(graph) :
          /\ Degree(graph, v) = 0
          /\ \A m \in Measures : v \in DOMAIN Centrality[m]

-----------------------------------------------------------------------------
(* Rankings, records and edges: C24 - C30                                  *)

\* the position at which an id first appears in the caller's entity list
FirstIndex(id) == CHOOSE i \in DOMAIN inE : inE[i].id = id /\ \A j \in 1..(i - 1) : inE[j].id # id

\* C24: among entities with equal influence_score, influence_rankings keeps
\* them in original input order (the order in which their ids first appear
\* in the entities sequence), although the list is sorted in descending
\* order.
C24_TiesKeepInputOrder ==
    AfterCall /\ HasResult(result) =>
        \A i, j \in DOMAIN Rankings :
            i < j /\ Rankings[i].influence_score = Rankings[j].influence_score =>
                FirstIndex(Rankings[i].id) < FirstIndex(Rankings[j].id)

\* the caller listed b before a, the two are joined and have the same
\* score above 0, and b is ranked first
C24_Witness ==
    /\ AfterCall
    /\ HasResult(result)
    /\ Len(Rankings) = 2
    /\ Rankings[1].id = IdB
    /\ Rankings[2].id = IdA
    /\ Rankings[1].influence_score = Rankings[2].influence_score
    /\ Rankings[1].influence_score # RZero

\* C25: after graph construction every entity record in the entity table
\* (and therefore in influence_rankings and in community member lists) has
\* a name and a type: a record with no name gets the positional placeholder
\* 'Entity {i}' and a record with no type gets 'organization'.
C25_NameAndTypeDefaulted ==
    AfterCall =>
        /\ \A x \in Range(entities.keys) :
              /\ Has(entities.val[x], "name")
              /\ Has(entities.val[x], "type")
              /\ ~Has(LastRecord(x), "type") => entities.val[x].type = Organization
        /\ HasResult(result) =>
              \A i \in DOMAIN Rankings :
                  Has(Rankings[i], "name") /\ Has(Rankings[i], "type")

\* the surviving records of the caller's list that lie on the edge e
RecordsOf(e) == {i \in SurvivingRecords : {inR[i].source, inR[i].target} = e}

\* C26: every edge of the built graph carries a strength value that is at
\* least the minimum threshold: when the relationship record that created
\* the edge has no strength field, the edge carries the default 0.5.
C26_EdgesCarryStrength ==
    AfterCall =>
        \A e \in Edges(graph) :
            /\ Has(graph.eattr[e], "strength")
            /\ graph.eattr[e].strength >= min_relationship_strength
            /\ (\A i \in RecordsOf(e) : ~Has(inR[i], "strength")) =>
                  graph.eattr[e].strength = DefaultStrength

\* the last of a non-empty set of positions
LastOf(S) == CHOOSE i \in S : \A j \in S : j <= i

\* the unordered pairs joined by a surviving record
SurvivingPairs == {{inR[i].source, inR[i].target} : i \in SurvivingRecords}

\* C27: for any sequence of relationship records, the graph holds
\* at most one edge per unordered pair of entities (records (a,b) and (b,a)
\* map to the same edge), and after the build that edge's attributes,
\* including its strength, are exactly those of the last surviving record
\* for the pair in input order.
C27_EdgeHasLastRecord ==
    AfterCall =>
        /\ Edges(graph) = SurvivingPairs
        /\ \A e \in Edges(graph) : graph.eattr[e] = inR[LastOf(RecordsOf(e))]

\* C28: for every input, summary.entity_count equals the number of nodes of
\* the built graph and the number of records in influence_rankings,
\* including when several input records share an id or synthesize the same
\* id.
C28_EntityCountCountsNodes ==
    AfterCall /\ HasResult(result) =>
        /\ result.summary.entity_count = NumberOfNodes(graph)
        /\ result.summary.entity_count = Len(Rankings)

\* min(100, 100 * (0.4 * degree + 0.6 * betweenness) * multiplier) on the
\* values the result reports for v
InfluenceFromReported(v) ==
    LET weighted == RAdd(RMul(Rat(2, 5), Centrality.degree_centrality[v]),
                         RMul(Rat(3, 5), Centrality.betweenness_centrality[v]))
    IN  RMin(Hundred, RMul(RMul(Hundred, weighted), StatedMultiplier(entities.val[v])))

\* C29: for every graph node, the influence_score in influence_rankings
\* equals the influence formula evaluated on the degree and betweenness
\* values that the same result reports for that node in its centrality
\* maps, including for disconnected graphs where betweenness is reported
\* per connected component.
C29_InfluenceFromReportedCentrality ==
    AfterCall /\ HasResult(result) /\ NumberOfEdges(graph) >= 1 =>
        \A i \in DOMAIN Rankings :
            Rankings[i].influence_score = InfluenceFromReported(Rankings[i].id)

\* C30: clear_network empties only the engine's own state (graph, entity
\* table, stored relationships, cache): after analyze_network(E, R) followed
\* by clear_network(), the caller's sequences E and R still contain the same
\* records as before the clear.
C30_ClearLeavesCallersLists ==
    [][relAliased /\ ClearNetwork => inE' = inE /\ inR' = inR]_vars

=============================================================================
